---- MODULE Spec2Model ----
(***************************************************************************)
(* Message Search API: the in-memory search engines of main.py             *)
(* (MessageSearchEngine) and main_optimized.py                             *)
(* (OptimizedMessageSearchEngine), their start-up ingestion (load_data)    *)
(* and the GET /search handler with its readiness gate.                    *)
(*                                                                         *)
(* A Python str is a sequence of one-character strings; a dict is a        *)
(* function whose domain is its key set; a list is a sequence.  Positions  *)
(* kept in the indices are 0-based, as enumerate() produces them.          *)
(***************************************************************************)
EXTENDS Integers, Sequences, FiniteSets, TLC

VARIABLES
    engine,         \* which application runs: "main" (main.py) or "optimized"
    corpus,         \* the upstream's records, fixed for a run
    messages,       \* self.messages
    loaded,         \* self.loaded
    message_index,  \* self.message_index (optimized engine)
    user_index,     \* self.user_index (optimized engine)
    pc,             \* where load_data stands
    all_messages,   \* load_data's local all_messages
    skip,           \* load_data's local skip
    retry_count,    \* load_data's local retry_count (optimized engine)
    requests,       \* the (skip, limit) requests sent so far for the current page
    fetched,        \* number of 200 responses with items received so far
    faithful,       \* every 200 response so far was the upstream's true page
    gave_up,        \* load_data left its loop on a failed fetch
    builds,         \* number of completed _build_indices runs
    resp            \* the last answer of GET /search or of a direct search call

vars == << engine, corpus, messages, loaded, message_index, user_index, pc,
           all_messages, skip, retry_count, requests, fetched, faithful,
           gave_up, builds, resp >>

----------------------------------------------------------------------------
(* Bounds of the model *)

\* the upstream holds at most MaxTotal records and reports totals up to it
MaxTotal == 3
\* load_data's page size (limit = 100 in the source), scaled down
PageLimit == 2
\* pages requested are at most MaxPage
MaxPage == 3
\* limits requested are at most MaxLimit (the handler allows up to 100)
MaxLimit == 3
\* direct calls also try pages and limits down to -NegSpan
NegSpan == 1
\* _build_indices is run at most MaxBuilds times on one engine
MaxBuilds == 2

\* max_retries of OptimizedMessageSearchEngine.load_data
max_retries == 3

----------------------------------------------------------------------------
(* Python str operations *)

Whitespace == {" ", "\t"}

\* str.lower(), one character
LowerChar(c) ==
    CASE c = "A" -> "a"
      [] c = "B" -> "b"
      [] OTHER -> c

\* str.lower()
lower(s) == [i \in 1..Len(s) |-> LowerChar(s[i])]

RECURSIVE lstrip(_)
lstrip(s) ==
    IF s # <<>> /\ Head(s) \in Whitespace THEN lstrip(Tail(s)) ELSE s

RECURSIVE rstrip(_)
rstrip(s) ==
    IF s # <<>> /\ s[Len(s)] \in Whitespace
    THEN rstrip(SubSeq(s, 1, Len(s) - 1))
    ELSE s

\* str.strip()
strip(s) == rstrip(lstrip(s))

\* str.split() scanning s from character i on: word is the run of
\* non-whitespace characters read so far, words the runs completed
RECURSIVE SplitFrom(_, _, _, _)
SplitFrom(s, i, word, words) ==
    IF i > Len(s)
    THEN (IF word = <<>> THEN words ELSE Append(words, word))
    ELSE IF s[i] \in Whitespace
    THEN SplitFrom(s, i + 1, <<>>,
                   IF word = <<>> THEN words ELSE Append(words, word))
    ELSE SplitFrom(s, i + 1, Append(word, s[i]), words)

\* str.split(): the maximal runs of non-whitespace characters, in order
split(s) == SplitFrom(s, 1, <<>>, <<>>)

\* sub in s
Contains(sub, s) ==
    \E i \in 0..(Len(s) - Len(sub)) : SubSeq(s, i + 1, i + Len(sub)) = sub

----------------------------------------------------------------------------
(* Python list and int operations *)

\* a slice bound clipped as list slicing clips it
SliceBound(i, n) ==
    IF i < 0
    THEN (IF i + n < 0 THEN 0 ELSE i + n)
    ELSE (IF i > n THEN n ELSE i)

\* s[start:end]
PySlice(s, start, end) ==
    LET lo == SliceBound(start, Len(s))
        hi == SliceBound(end, Len(s))
    IN  IF hi <= lo THEN <<>> ELSE SubSeq(s, lo + 1, hi)

\* a // b (floor division); a zero divisor raises ZeroDivisionError
PyFloorDiv(a, b) ==
    IF b = 0 THEN [error |-> "ZeroDivisionError", value |-> 0]
    ELSE IF b > 0 THEN [error |-> "none", value |-> a \div b]
    ELSE [error |-> "none", value |-> (0 - a) \div (0 - b)]

\* sorted(S) for a set of integers
RECURSIVE sorted(_)
sorted(S) ==
    IF S = {}
    THEN <<>>
    ELSE LET m == CHOOSE x \in S : \A y \in S : x <= y
         IN  <<m>> \o sorted(S \ {m})

\* the set of a list's elements
Elems(s) == {s[i] : i \in 1..Len(s)}

----------------------------------------------------------------------------
(* Records *)

\* Message(**msg): the validated record with the fields of the raw item
Message(msg) ==
    [id |-> msg.id, user_name |-> msg.user_name, message |-> msg.message]

----------------------------------------------------------------------------
(* OptimizedMessageSearchEngine._build_indices *)

\* IndexAppend assigning the list instead of appending to it
IndexAppend_Overwrite(index, key, idx) ==
    CHOOSE r \in { IF key \in DOMAIN d
                   THEN [d EXCEPT ![key] = <<idx>>]
                   ELSE d @@ (key :> <<idx>>)
                   : d \in {index} } : TRUE

\* if key not in index: index[key] = [];  index[key].append(idx)
\* (d is the dict index, evaluated once)
IndexAppend(index, key, idx) ==
    CHOOSE r \in { IF key \in DOMAIN d
                   THEN [d EXCEPT ![key] = Append(@, idx)]
                   ELSE d @@ (key :> <<idx>>)
                   : d \in {index} } : TRUE

\* for word in words: append idx under word
RECURSIVE IndexWords(_, _, _)
IndexWords(index, words, idx) ==
    IF words = <<>>
    THEN index
    ELSE IndexWords(IndexAppend(index, Head(words), idx), Tail(words), idx)

\* the loop of _build_indices from list position i on (idx = i - 1), with
\* its locals words and user_key; the indices it starts from are the
\* engine's current ones, never reset
RECURSIVE BuildFrom(_, _, _, _)
BuildFrom(mi, ui, msgs, i) ==
    IF i > Len(msgs)
    THEN [message_index |-> mi, user_index |-> ui]
    ELSE CHOOSE r \in
           { BuildFrom(IndexWords(mi, words, i - 1),
                       IndexAppend(ui, user_key, i - 1), msgs, i + 1)
             : words \in {split(lower(msgs[i].message))},
               user_key \in {lower(msgs[i].user_name)} } : TRUE

build_indices(mi, ui, msgs) == BuildFrom(mi, ui, msgs, 1)

\* the empty dict
EmptyDict == [k \in {} |-> <<>>]

----------------------------------------------------------------------------
(* Pagination, shared by search and search_fast *)

\* TotalPages without the limit > 0 guard
TotalPages_NoGuard(total, limit) == PyFloorDiv(total + limit - 1, limit)

\* (total + limit - 1) // limit if limit > 0 else 1
TotalPages(total, limit) ==
    IF limit > 0
    THEN PyFloorDiv(total + limit - 1, limit)
    ELSE [error |-> "none", value |-> 1]

\* Paginate slicing from page * limit instead of (page - 1) * limit
Paginate_StartAtPage(filtered_messages, page, limit, path) ==
    LET total == Len(filtered_messages)
        total_pages == TotalPages(total, limit)
        start_idx == page * limit
        end_idx == start_idx + limit
        page_items == PySlice(filtered_messages, start_idx, end_idx)
    IN  IF total_pages.error # "none"
        THEN [error |-> total_pages.error]
        ELSE [error |-> "none", total |-> total, page |-> page,
              limit |-> limit, total_pages |-> total_pages.value,
              items |-> page_items, path |-> path]

\* the result dict (query_time_ms left out); path records which branch
\* produced filtered_messages: "all", "index" or "scan"
Paginate(filtered_messages, page, limit, path) ==
    LET total == Len(filtered_messages)
        total_pages == TotalPages(total, limit)
        start_idx == (page - 1) * limit
        end_idx == start_idx + limit
        page_items == PySlice(filtered_messages, start_idx, end_idx)
    IN  IF total_pages.error # "none"
        THEN [error |-> total_pages.error]
        ELSE [error |-> "none", total |-> total, page |-> page,
              limit |-> limit, total_pages |-> total_pages.value,
              items |-> page_items, path |-> path]

\* IsBlank testing only for the empty string
IsBlank_NoStrip(query) == query = <<>>

\* not query or not query.strip()
IsBlank(query) == query = <<>> \/ strip(query) = <<>>

\* Normalize without lower-casing
Normalize_NoLower(query) == strip(query)

\* query.lower().strip()
Normalize(query) == strip(lower(query))

\* query_lower in msg.message.lower() or query_lower in msg.user_name.lower()
SubstringMatch(query_lower, msg) ==
    \/ Contains(query_lower, lower(msg.message))
    \/ Contains(query_lower, lower(msg.user_name))

----------------------------------------------------------------------------
(* MessageSearchEngine.search (main.py) *)

search(msgs, query, page, limit) ==
    IF IsBlank(query)
    THEN Paginate(msgs, page, limit, "all")
    ELSE LET query_lower == Normalize(query)
             filtered_messages ==
                 SelectSeq(msgs, LAMBDA msg : SubstringMatch(query_lower, msg))
         IN  Paginate(filtered_messages, page, limit, "scan")

----------------------------------------------------------------------------
(* OptimizedMessageSearchEngine.search_fast *)

\* IndexLookup consulting message_index only
IndexLookup_MessageOnly(mi, ui, query_lower) ==
    IF query_lower \in DOMAIN mi THEN Elems(mi[query_lower]) ELSE {}

\* matched_indices after the two index lookups
IndexLookup(mi, ui, query_lower) ==
    (IF query_lower \in DOMAIN mi THEN Elems(mi[query_lower]) ELSE {})
    \cup
    (IF query_lower \in DOMAIN ui THEN Elems(ui[query_lower]) ELSE {})

\* the substring fallback over enumerate(self.messages)
SubstringScan(msgs, query_lower) ==
    {idx \in 0..(Len(msgs) - 1) : SubstringMatch(query_lower, msgs[idx + 1])}

\* matched_indices, with the branch that filled it
MatchedIndices(msgs, mi, ui, query_lower) ==
    LET exact == IndexLookup(mi, ui, query_lower)
    IN  IF exact # {}
        THEN [indices |-> exact, path |-> "index"]
        ELSE [indices |-> SubstringScan(msgs, query_lower), path |-> "scan"]

search_fast(msgs, mi, ui, query, page, limit) ==
    IF IsBlank(query)
    THEN Paginate(msgs, page, limit, "all")
    ELSE LET m == MatchedIndices(msgs, mi, ui, Normalize(query))
             order == sorted(m.indices)
         IN  IF \E idx \in m.indices : idx >= Len(msgs)
             THEN [error |-> "IndexError"]
             ELSE Paginate([i \in 1..Len(order) |-> msgs[order[i] + 1]],
                           page, limit, m.path)

----------------------------------------------------------------------------
(* Inputs: the upstream's records and the requests *)

\* texts a record may carry: message and user_name (one message repeats a
\* word and ends in whitespace)
TextPool ==
    { [message |-> <<"a", " ", "b">>, user_name |-> <<"A", "b">>],
      [message |-> <<"a", "b">>,      user_name |-> <<"b">>],
      [message |-> <<"A", " ", "a", " ">>, user_name |-> <<"a", " ", "b">>] }

\* the sequences over S of length n
RECURSIVE SeqsOfLen(_, _)
SeqsOfLen(S, n) ==
    IF n = 0
    THEN {<<>>}
    ELSE {Append(t, x) : t \in SeqsOfLen(S, n - 1), x \in S}

\* an upstream corpus: raw items, the i-th with id i
Corpora ==
    UNION { { [i \in 1..n |-> [id |-> i, user_name |-> t[i].user_name,
                               message |-> t[i].message]]
              : t \in SeqsOfLen(TextPool, n) }
            : n \in 0..MaxTotal }

\* the q parameter of a search
Queries ==
    { <<>>, <<" ">>, <<"\t", " ">>,
      <<"a">>, <<"A">>, <<" ", "A", "\t">>,
      <<"b">>, <<"a", "b">>, <<"A", "B">>,
      <<"a", " ", "b">>, <<"A", " ", "a">>, <<"a", " ", "A">>,
      <<"b", "b">> }

\* page and limit as the handler validates them: Query(ge=1), Query(ge=1, le=...)
HttpPages == 1..MaxPage
HttpLimits == 1..MaxLimit

\* page and limit of a direct call of the engine's method: any int
CallPages == (0 - NegSpan)..MaxPage
CallLimits == (0 - NegSpan)..MaxLimit

\* status codes the upstream answers with
Statuses == {200, 400, 403, 404, 500}

Min(a, b) == IF a <= b THEN a ELSE b

\* the upstream's records [sk, sk + PageLimit)
TruePage(sk) == SubSeq(corpus, sk + 1, Min(sk + PageLimit, Len(corpus)))

\* the items a 200 response may carry for skip = sk: the true page or the
\* first few records of it (none included)
PageChoices(sk) ==
    {SubSeq(TruePage(sk), 1, k) : k \in 0..Len(TruePage(sk))}

\* the totals a 200 response may report
TotalChoices == 0..MaxTotal

NoResp == [via |-> "none"]

----------------------------------------------------------------------------
(* Initial states *)

\* the engine constructed (__init__) and startup_event having entered
\* load_data: all_messages = [], skip = 0
Init ==
    /\ engine \in {"main", "optimized"}
    /\ corpus \in Corpora
    /\ messages = <<>>
    /\ loaded = FALSE
    /\ message_index = EmptyDict
    /\ user_index = EmptyDict
    /\ pc = "fetch"
    /\ all_messages = <<>>
    /\ skip = 0
    /\ retry_count = 0
    /\ requests = 0
    /\ fetched = 0
    /\ faithful = TRUE
    /\ gave_up = FALSE
    /\ builds = 0
    /\ resp = NoResp

\* the engine constructed and load_data having left its fetch loop with the
\* upstream's records in all_messages (any list of at most 100 records is
\* one page of the source's limit = 100)
InitEngine ==
    /\ engine \in {"main", "optimized"}
    /\ corpus \in Corpora
    /\ messages = <<>>
    /\ loaded = FALSE
    /\ message_index = EmptyDict
    /\ user_index = EmptyDict
    /\ pc = "store"
    /\ all_messages = corpus
    /\ skip = 0
    /\ retry_count = 0
    /\ requests = IF corpus = <<>> THEN 0 ELSE 1
    /\ fetched = IF corpus = <<>> THEN 0 ELSE 1
    /\ faithful = TRUE
    /\ gave_up = FALSE
    /\ builds = 0
    /\ resp = NoResp

----------------------------------------------------------------------------
(* MessageSearchEngine.load_data (main.py): one pass of the while loop *)

\* skip advanced by two pages
NextSkip_Twice(sk) == sk + PageLimit + PageLimit

\* skip += limit
NextSkip(sk) == sk + PageLimit

loadLocals == << all_messages, skip, retry_count, requests, fetched,
                 faithful, gave_up >>
engineState == << messages, loaded, message_index, user_index, builds >>

\* response.status_code != 200: break
MainBadStatus ==
    /\ engine = "main" /\ pc = "fetch"
    /\ \E status \in Statuses \ {200} :
         /\ pc' = "store"
         /\ gave_up' = TRUE
         /\ requests' = requests + 1
    /\ UNCHANGED << engine, corpus, engineState, all_messages, skip,
                    retry_count, fetched, faithful, resp >>

\* except Exception: break
MainException ==
    /\ engine = "main" /\ pc = "fetch"
    /\ pc' = "store"
    /\ gave_up' = TRUE
    /\ requests' = requests + 1
    /\ UNCHANGED << engine, corpus, engineState, all_messages, skip,
                    retry_count, fetched, faithful, resp >>

\* status 200: the try block (lines 81-99), then, when it neither broke nor
\* raised, the statements after it (lines 107-120)
MainOk ==
    /\ engine = "main" /\ pc = "fetch"
    /\ \E items \in PageChoices(skip), total \in TotalChoices :
         LET in_try == all_messages \o items
             after_try == in_try \o items
         IN  /\ faithful' = (faithful /\ items = TruePage(skip)
                                      /\ total = Len(corpus))
             /\ fetched' = IF items = <<>> THEN fetched ELSE fetched + 1
             /\ IF items = <<>>
                THEN /\ all_messages' = all_messages
                     /\ skip' = skip
                     /\ requests' = requests + 1
                     /\ pc' = "store"
                ELSE IF Len(in_try) >= total
                THEN /\ all_messages' = in_try
                     /\ skip' = skip
                     /\ requests' = requests + 1
                     /\ pc' = "store"
                ELSE IF Len(after_try) >= total
                THEN /\ all_messages' = after_try
                     /\ skip' = NextSkip(skip)
                     /\ requests' = 0
                     /\ pc' = "store"
                ELSE /\ all_messages' = after_try
                     /\ skip' = NextSkip(NextSkip(skip))
                     /\ requests' = 0
                     /\ pc' = "fetch"
    /\ UNCHANGED << engine, corpus, engineState, retry_count, gave_up, resp >>

----------------------------------------------------------------------------
(* OptimizedMessageSearchEngine.load_data: one pass of the retry loop *)

\* status 403 or 400: sleep, retry_count += 1, continue; the retry loop
\* ends without success once retry_count reaches max_retries
OptRateLimited ==
    /\ engine = "optimized" /\ pc = "fetch"
    /\ \E status \in {403, 400} :
         /\ retry_count' = retry_count + 1
         /\ requests' = requests + 1
         /\ IF retry_count + 1 < max_retries
            THEN /\ pc' = "fetch" /\ gave_up' = gave_up
            ELSE /\ pc' = "store" /\ gave_up' = TRUE
    /\ UNCHANGED << engine, corpus, engineState, all_messages, skip,
                    fetched, faithful, resp >>

\* any other status but 200: break out of the retry loop, success False
OptBadStatus ==
    /\ engine = "optimized" /\ pc = "fetch"
    /\ \E status \in Statuses \ {200, 403, 400} :
         /\ pc' = "store"
         /\ gave_up' = TRUE
         /\ requests' = requests + 1
    /\ UNCHANGED << engine, corpus, engineState, all_messages, skip,
                    retry_count, fetched, faithful, resp >>

\* except Exception: retry_count += 1; retry while below max_retries
OptException ==
    /\ engine = "optimized" /\ pc = "fetch"
    /\ retry_count' = retry_count + 1
    /\ requests' = requests + 1
    /\ IF retry_count + 1 < max_retries
       THEN /\ pc' = "fetch" /\ gave_up' = gave_up
       ELSE /\ pc' = "store" /\ gave_up' = TRUE
    /\ UNCHANGED << engine, corpus, engineState, all_messages, skip,
                    fetched, faithful, resp >>

\* status 200: success; stop on no items or on len(all_messages) >= total,
\* else skip += limit and the next page starts with retry_count = 0
OptOk ==
    /\ engine = "optimized" /\ pc = "fetch"
    /\ \E items \in PageChoices(skip), total \in TotalChoices :
         LET extended == all_messages \o items
         IN  /\ faithful' = (faithful /\ items = TruePage(skip)
                                      /\ total = Len(corpus))
             /\ fetched' = IF items = <<>> THEN fetched ELSE fetched + 1
             /\ all_messages' = extended
             /\ IF items = <<>> \/ Len(extended) >= total
                THEN /\ skip' = skip
                     /\ retry_count' = retry_count
                     /\ requests' = requests + 1
                     /\ pc' = "store"
                ELSE /\ skip' = NextSkip(skip)
                     /\ retry_count' = 0
                     /\ requests' = 0
                     /\ pc' = "fetch"
    /\ UNCHANGED << engine, corpus, engineState, gave_up, resp >>

----------------------------------------------------------------------------
(* The end of load_data, both engines *)

\* StoreMessages setting loaded at once, before the indices are built
StoreMessages_LoadedEarly ==
    /\ pc = "store"
    /\ messages' = [i \in 1..Len(all_messages) |-> Message(all_messages[i])]
    /\ loaded' = TRUE
    /\ pc' = IF engine = "optimized" THEN "index" ELSE "ready"
    /\ UNCHANGED << engine, corpus, message_index, user_index,
                    builds, loadLocals, resp >>

\* self.messages = [Message(**msg) for msg in all_messages]
StoreMessages ==
    /\ pc = "store"
    /\ messages' = [i \in 1..Len(all_messages) |-> Message(all_messages[i])]
    /\ pc' = IF engine = "optimized" THEN "index" ELSE "ready"
    /\ UNCHANGED << engine, corpus, loaded, message_index, user_index,
                    builds, loadLocals, resp >>

\* self._build_indices()
BuildIndices ==
    /\ pc = "index"
    /\ LET built == build_indices(message_index, user_index, messages)
       IN  /\ message_index' = built.message_index
           /\ user_index' = built.user_index
    /\ builds' = builds + 1
    /\ pc' = "ready"
    /\ UNCHANGED << engine, corpus, messages, loaded, loadLocals, resp >>

\* SetLoaded marking the engine ready only when no fetch was given up
SetLoaded_OnlyOnSuccess ==
    /\ pc = "ready"
    /\ loaded' = ~gave_up
    /\ pc' = "done"
    /\ UNCHANGED << engine, corpus, messages, message_index, user_index,
                    builds, loadLocals, resp >>

\* self.loaded = True
SetLoaded ==
    /\ pc = "ready"
    /\ loaded' = TRUE
    /\ pc' = "done"
    /\ UNCHANGED << engine, corpus, messages, message_index, user_index,
                    builds, loadLocals, resp >>

\* a further call of _build_indices() on the loaded engine
RebuildIndices ==
    /\ engine = "optimized" /\ pc = "done"
    /\ builds < MaxBuilds
    /\ LET built == build_indices(message_index, user_index, messages)
       IN  /\ message_index' = built.message_index
           /\ user_index' = built.user_index
    /\ builds' = builds + 1
    /\ UNCHANGED << engine, corpus, messages, loaded, pc, loadLocals, resp >>

\* a further run of load_data() on the loaded engine, having left its fetch
\* loop with the records the upstream holds by then in all_messages; loaded
\* stays as it is, the indices are not touched; it starts once the caller
\* holds no unread answer
LoadAgain ==
    /\ engine = "optimized" /\ pc = "done"
    /\ builds < MaxBuilds
    /\ resp = NoResp
    /\ \E upstream \in Corpora :
         /\ corpus' = upstream
         /\ all_messages' = upstream
         /\ requests' = (IF upstream = <<>> THEN 0 ELSE 1)
         /\ fetched' = (IF upstream = <<>> THEN 0 ELSE 1)
    /\ skip' = 0
    /\ retry_count' = 0
    /\ faithful' = TRUE
    /\ gave_up' = FALSE
    /\ pc' = "store"
    /\ UNCHANGED << engine, engineState, resp >>

----------------------------------------------------------------------------
(* Searches *)

\* the engine's search method, as the application calls it
EngineSearch(query, page, limit) ==
    IF engine = "optimized"
    THEN search_fast(messages, message_index, user_index, query, page, limit)
    ELSE search(messages, query, page, limit)

\* GET /search: 503 while not loaded, else the engine's result; the client
\* sends it once it holds no unread answer
GetSearch ==
    /\ resp = NoResp
    /\ \E query \in Queries, page \in HttpPages, limit \in HttpLimits :
         resp' = IF ~loaded
                 THEN [via |-> "http", status |-> 503, invoked |-> FALSE]
                 ELSE LET result == EngineSearch(query, page, limit)
                      IN  [via |-> "http",
                           status |-> IF result.error = "none"
                                      THEN 200 ELSE 500,
                           invoked |-> TRUE, query |-> query,
                           page |-> page, limit |-> limit,
                           result |-> result]
    /\ UNCHANGED << engine, corpus, engineState, pc, loadLocals >>

\* the engine's search method called on the loaded engine with any int
\* page and limit
CallSearch ==
    /\ pc = "done"
    /\ resp = NoResp
    /\ \E query \in Queries, page \in CallPages, limit \in CallLimits :
         resp' = [via |-> "call", query |-> query, page |-> page,
                  limit |-> limit,
                  result |-> EngineSearch(query, page, limit)]
    /\ UNCHANGED << engine, corpus, engineState, pc, loadLocals >>

\* the caller has read the answer
Deliver ==
    /\ resp # NoResp
    /\ resp' = NoResp
    /\ UNCHANGED << engine, corpus, engineState, pc, loadLocals >>

----------------------------------------------------------------------------
(* Specifications *)

LoadNext ==
    \/ MainBadStatus
    \/ MainException
    \/ MainOk
    \/ OptRateLimited
    \/ OptBadStatus
    \/ OptException
    \/ OptOk
    \/ StoreMessages
    \/ BuildIndices
    \/ SetLoaded

\* the service: start-up ingestion with GET /search arriving at any time
Next ==
    \/ LoadNext
    \/ GetSearch
    \/ Deliver

Spec == Init /\ [][Next]_vars

\* start-up ingestion alone; load_data is the only task and runs on
FairLoad == Init /\ [][LoadNext]_vars /\ WF_vars(LoadNext)

EngineNext ==
    \/ StoreMessages
    \/ BuildIndices
    \/ SetLoaded
    \/ RebuildIndices
    \/ CallSearch
    \/ Deliver

\* the engine's methods on a store of given records
SpecEngine == InitEngine /\ [][EngineNext]_vars

ReloadNext ==
    \/ StoreMessages
    \/ BuildIndices
    \/ SetLoaded
    \/ LoadAgain
    \/ CallSearch
    \/ Deliver

\* one engine whose load_data is run again while it serves searches
SpecReload == InitEngine /\ [][ReloadNext]_vars

----------------------------------------------------------------------------
(* What the claims speak of *)

\* the answer in resp came out of the engine's search method
Answered ==
    \/ resp.via = "call"
    \/ resp.via = "http" /\ resp.invoked

\* the query with surrounding whitespace removed and letters lower-cased
Folded(q) == lower(strip(q))

\* a query that is empty or only whitespace
BlankQuery(q) == \A i \in 1..Len(q) : q[i] \in Whitespace

\* the positions of msgs
Positions(msgs) == 0..(Len(msgs) - 1)

\* ground truth: positions whose message or user_name contains n
SubstringSet(msgs, n) ==
    {p \in Positions(msgs) :
        \/ Contains(n, lower(msgs[p + 1].message))
        \/ Contains(n, lower(msgs[p + 1].user_name))}

\* positions whose message has n as a whitespace-delimited token or whose
\* whole user_name is n
ExactTermSet(msgs, n) ==
    {p \in Positions(msgs) :
        \/ n \in Elems(split(lower(msgs[p + 1].message)))
        \/ lower(msgs[p + 1].user_name) = n}

\* the match set of query q on the running engine's store
MatchSet(q) ==
    IF BlankQuery(q) THEN Positions(messages)
    ELSE IF engine = "optimized" /\ ExactTermSet(messages, Folded(q)) # {}
    THEN ExactTermSet(messages, Folded(q))
    ELSE SubstringSet(messages, Folded(q))

\* the records at the positions of S, in ascending position order
RecordsAt(S) ==
    LET order == sorted(S)
    IN  [i \in 1..Len(order) |-> messages[order[i] + 1]]

\* items of pages from..to of query q with limit l, concatenated
RECURSIVE PagesConcat(_, _, _, _)
PagesConcat(q, l, from, to) ==
    IF from > to
    THEN <<>>
    ELSE EngineSearch(q, from, l).items \o PagesConcat(q, l, from + 1, to)

\* the least k with k * l >= n, for l >= 1
Ceil(n, l) == CHOOSE k \in 0..n : k * l >= n /\ (k = 0 \/ (k - 1) * l < n)

\* two strings equal up to letter case
CasePairs == {{"a", "A"}, {"b", "B"}}
SameIgnoringCase(s, t) ==
    /\ Len(s) = Len(t)
    /\ \A i \in 1..Len(s) : s[i] = t[i] \/ {s[i], t[i]} \in CasePairs

\* two queries differing only in letter case and surrounding whitespace
CaseVariants(q1, q2) == SameIgnoringCase(strip(q1), strip(q2))

\* all_messages as Message objects
Collected == [i \in 1..Len(all_messages) |-> Message(all_messages[i])]

\* the upstream's records as Message objects
Upstream == [i \in 1..Len(corpus) |-> Message(corpus[i])]

----------------------------------------------------------------------------
(* C1 *)

\* C1: for a non-empty query, page >= 1 and limit >= 1, search_fast returns
\* total equal to the number of records whose lower-cased message or
\* user_name contains the lower-cased query, and total = 0 comes with
\* items = [].
C1_TotalIsSubstringCount ==
    (Answered /\ engine = "optimized" /\ ~BlankQuery(resp.query)
              /\ resp.page >= 1 /\ resp.limit >= 1)
    => /\ resp.result.error = "none"
       /\ resp.result.total =
              Cardinality(SubstringSet(messages, Folded(resp.query)))
       /\ (resp.result.total = 0 => resp.result.items = <<>>)

----------------------------------------------------------------------------
(* C2 *)

\* C2: for limit >= 1 the items of pages 1..total_pages, concatenated, are
\* the records of the match set, each position once, in ascending position
\* order; a page beyond total_pages has no items and the same total; the
\* page field is the requested page.
C2_PagesPartitionMatches ==
    (Answered /\ resp.limit >= 1 /\ resp.page >= 1)
    => LET r == resp.result
           expected == RecordsAt(MatchSet(resp.query))
       IN  /\ r.error = "none"
           /\ r.page = resp.page
           /\ r.total = Len(expected)
           /\ PagesConcat(resp.query, resp.limit, 1, r.total_pages) = expected
           /\ r.items = SubSeq(expected, (resp.page - 1) * resp.limit + 1,
                               Min(resp.page * resp.limit, r.total))
           /\ \A p \in (r.total_pages + 1)..(r.total_pages + 2) :
                LET beyond == EngineSearch(resp.query, p, resp.limit)
                IN  /\ beyond.items = <<>>
                    /\ beyond.total = r.total
                    /\ beyond.page = p

\* a second page that holds items, of more than one page
C2_Witness ==
    /\ Answered /\ resp.limit >= 1 /\ resp.page = 2
    /\ ~BlankQuery(resp.query)
    /\ resp.result.total_pages >= 2
    /\ resp.result.items # <<>>

----------------------------------------------------------------------------
(* C3 *)

\* C3: an empty or whitespace-only query, with page >= 1 and limit >= 1,
\* returns total = number of records, the items being the page of all
\* records in store order, and neither the index lookup nor the substring
\* scan runs.
C3_BlankQueryMatchesAll ==
    (Answered /\ BlankQuery(resp.query) /\ resp.page >= 1 /\ resp.limit >= 1)
    => /\ resp.result.error = "none"
       /\ resp.result.total = Len(messages)
       /\ resp.result.path = "all"
       /\ resp.result.items =
              SubSeq(messages, (resp.page - 1) * resp.limit + 1,
                     Min(resp.page * resp.limit, Len(messages)))

\* a whitespace-only query answered on a store of several records
C3_Witness ==
    /\ Answered /\ resp.query = <<"\t", " ">>
    /\ resp.page >= 1 /\ resp.limit >= 1
    /\ Len(messages) >= 2
    /\ resp.result.total = Len(messages)

----------------------------------------------------------------------------
(* C4 *)

\* C4: queries that differ only in letter case and surrounding whitespace
\* get the same total, total_pages and items for the same page and limit.
C4_CaseInsensitive ==
    (Answered /\ resp.page >= 1 /\ resp.limit >= 1)
    => \A q \in Queries :
         CaseVariants(q, resp.query)
         => LET other == EngineSearch(q, resp.page, resp.limit)
            IN  /\ other.error = "none" /\ resp.result.error = "none"
                /\ other.total = resp.result.total
                /\ other.total_pages = resp.result.total_pages
                /\ other.items = resp.result.items

\* an upper-case, padded query answered from the index with a match
C4_Witness ==
    /\ Answered /\ engine = "optimized"
    /\ resp.query = <<" ", "A", "\t">>
    /\ resp.page >= 1 /\ resp.limit >= 1
    /\ resp.result.path = "index"
    /\ resp.result.total >= 1

----------------------------------------------------------------------------
(* C5 *)

\* C5: total_pages = ceil(total / limit) for limit >= 1, which is 0 exactly
\* when total = 0; for limit <= 0 and any page the call does not fail and
\* returns total_pages = 1.
C5_TotalPages ==
    Answered
    => /\ resp.result.error = "none"
       /\ resp.limit >= 1
          => /\ resp.result.total_pages = Ceil(resp.result.total, resp.limit)
             /\ (resp.result.total_pages = 0 <=> resp.result.total = 0)
       /\ resp.limit <= 0 => resp.result.total_pages = 1

\* a call with limit = 0 on a store with records
C5_Witness ==
    /\ resp.via = "call" /\ resp.limit = 0
    /\ resp.result.error = "none"
    /\ resp.result.total >= 2

----------------------------------------------------------------------------
(* C6 *)

\* C6: MessageSearchEngine.load_data, the upstream answering every request
\* with status 200, its true page and its true total: afterwards the store
\* holds exactly the upstream's records, each once, in upstream order.
C6_MainLoadsCorpus ==
    (engine = "main" /\ pc = "done" /\ faithful /\ ~gave_up)
    => messages = Upstream

----------------------------------------------------------------------------
(* C7 *)

\* C7: OptimizedMessageSearchEngine.load_data, every 200 answer being the
\* upstream's true page and total: each fetched page is appended exactly
\* once in ascending skip order, also after retries; skip advances by one
\* page per fetched page; and unless a fetch was given up the store ends as
\* exactly the upstream's records in order.
C7_OptLoadsCorpus ==
    (engine = "optimized" /\ faithful)
    => /\ all_messages =
              SubSeq(corpus, 1, Min(Len(corpus), PageLimit * fetched))
       /\ pc = "fetch" => skip = PageLimit * fetched
       /\ (pc = "done" /\ ~gave_up) => messages = Upstream

\* a load of several pages, the last one fetched after a failed attempt
C7_Witness ==
    /\ engine = "optimized" /\ faithful /\ ~gave_up
    /\ pc = "done"
    /\ retry_count >= 1
    /\ fetched >= 2
    /\ messages = Upstream

----------------------------------------------------------------------------
(* C8 *)

\* C8: whatever the upstream answers, load_data finishes and sets loaded,
\* the store holding the records collected up to then.
C8_AlwaysReady ==
    <>[](loaded /\ pc = "done" /\ messages = Collected)

\* ready with the records of an earlier page after a fetch was given up
C8_Witness ==
    /\ loaded /\ pc = "done"
    /\ gave_up
    /\ messages # <<>>
    /\ messages = Collected

----------------------------------------------------------------------------
(* C9 *)

\* C9: GET /search handled while loaded is false answers 503 without calling
\* the engine's search, and handled while loaded is true never answers 503;
\* loaded is false until the last step of load_data (after the store is
\* assigned and, in the optimized engine, the indices are built) and once
\* true stays true.
C9_ReadinessGate ==
    /\ [](loaded => /\ pc = "done"
                    /\ messages = Collected
                    /\ engine = "optimized"
                       => /\ builds >= 1
                          /\ message_index =
                               build_indices(EmptyDict, EmptyDict,
                                             messages).message_index
                          /\ user_index =
                               build_indices(EmptyDict, EmptyDict,
                                             messages).user_index)
    /\ [][loaded => loaded']_vars
    /\ [][(resp = NoResp /\ resp' # NoResp)
          => IF loaded
             THEN resp'.status # 503 /\ resp'.invoked
             ELSE resp'.status = 503 /\ ~resp'.invoked]_vars

\* a request refused when the store and the indices are already in place
\* and only loaded is still false
C9_Witness ==
    /\ resp.via = "http" /\ resp.status = 503
    /\ pc = "ready"
    /\ messages # <<>>

----------------------------------------------------------------------------
(* C10 *)

\* a list sorted, repeated elements kept
RECURSIVE SortList(_)
SortList(s) ==
    IF s = <<>>
    THEN <<>>
    ELSE LET m == CHOOSE x \in Elems(s) : \A y \in Elems(s) : x <= y
             i == CHOOSE j \in 1..Len(s) : s[j] = m
         IN  <<m>> \o SortList(SubSeq(s, 1, i - 1) \o SubSeq(s, i + 1, Len(s)))

\* an index with every position list sorted
Normalized(index) == [k \in DOMAIN index |-> SortList(index[k])]

\* C10: a second run of _build_indices on unchanged messages leaves both
\* indices with the same keys and, per key, the same sorted position list.
C10_RebuildIdempotent ==
    [][(builds >= 1 /\ builds' = builds + 1 /\ messages' = messages)
       => /\ Normalized(message_index') = Normalized(message_index)
          /\ Normalized(user_index') = Normalized(user_index)]_vars

----------------------------------------------------------------------------
(* C11 *)

\* a step of the optimized load_data in which the request for the current
\* page failed: a 403/400 answer or an exception (retry_count += 1), or the
\* loop left on a failed fetch
FetchFailed ==
    /\ engine = "optimized" /\ pc = "fetch"
    /\ requests' = requests + 1
    /\ retry_count' = retry_count + 1 \/ (gave_up' /\ ~gave_up)

\* C11: in OptimizedMessageSearchEngine.load_data at most 3 requests are
\* made for one page, and whenever a request for a page fails (non-200
\* status, rate limiting or exception) the same skip is requested again
\* unless that was the third request: only then is the page given up.
C11_RetryPolicy ==
    /\ [](engine = "optimized" => requests <= max_retries)
    /\ [][FetchFailed
          => IF requests' < max_retries
             THEN pc' = "fetch" /\ skip' = skip /\ ~gave_up'
             ELSE pc' = "store" /\ gave_up']_vars

----------------------------------------------------------------------------
(* C12 *)

\* the positions listed under key n in index, none when n is no key
Listed(index, n) ==
    IF n \in DOMAIN index
    THEN {index[n][i] : i \in DOMAIN index[n]}
    ELSE {}

\* the largest total a search can return here
AllOf(q) == EngineSearch(q, 1, Len(messages) + 1)

\* C12: search_fast with a non-blank query whose normalized form n is a key
\* of message_index or of user_index returns exactly the records at the
\* union of the positions listed under n in the two indices, each once and
\* in ascending position order, without the substring scan; the substring
\* scan over message and user_name runs exactly when that union is empty.
C12_ExactTermPath ==
    (Answered /\ engine = "optimized" /\ ~BlankQuery(resp.query))
    => LET n == Folded(resp.query)
           union == Listed(message_index, n) \cup Listed(user_index, n)
           r == resp.result
       IN  /\ r.error = "none"
           /\ (n \in DOMAIN message_index \/ n \in DOMAIN user_index)
              => /\ r.path = "index"
                 /\ r.total = Cardinality(union)
                 /\ AllOf(resp.query).items = RecordsAt(union)
           /\ r.path = "scan" <=> union = {}
           /\ r.path = "scan"
              => /\ r.total = Cardinality(SubstringSet(messages, n))
                 /\ AllOf(resp.query).items
                        = RecordsAt(SubstringSet(messages, n))

\* a query answered from both indices, message_index listing a position
\* more than once
C12_Witness ==
    /\ Answered /\ engine = "optimized" /\ ~BlankQuery(resp.query)
    /\ LET n == Folded(resp.query)
       IN  /\ n \in DOMAIN message_index /\ n \in DOMAIN user_index
           /\ Len(message_index[n]) > Cardinality(Listed(message_index, n))
           /\ Listed(user_index, n) \ Listed(message_index, n) # {}
    /\ resp.result.path = "index"
    /\ resp.result.total >= 2

----------------------------------------------------------------------------
(* C13 *)

\* the whitespace-delimited tokens of a record's lower-cased message
Tokens(msg) == split(lower(msg.message))

\* how often t occurs in the list words
Occurrences(words, t) == Cardinality({j \in DOMAIN words : words[j] = t})

\* every token of every message of msgs
AllTokens(msgs) == UNION {Elems(Tokens(msgs[i])) : i \in DOMAIN msgs}

\* every lower-cased user_name of msgs
AllUserKeys(msgs) == {lower(msgs[i].user_name) : i \in DOMAIN msgs}

StrictlyAscending(l) == \A i, j \in DOMAIN l : i < j => l[i] < l[j]
NonDecreasing(l) == \A i, j \in DOMAIN l : i < j => l[i] <= l[j]

\* the first _build_indices of a freshly created engine has run
BuiltOnce == engine = "optimized" /\ builds = 1

\* user_index[k] is the strictly ascending list of the positions whose
\* lower-cased user_name is k
UserIndexExact ==
    /\ DOMAIN user_index = AllUserKeys(messages)
    /\ \A k \in DOMAIN user_index :
         /\ StrictlyAscending(user_index[k])
         /\ Listed(user_index, k) =
                {p \in Positions(messages) :
                    lower(messages[p + 1].user_name) = k}

\* no empty-string key in message_index and no key with an empty list
NoEmptyEntries ==
    /\ <<>> \notin DOMAIN message_index
    /\ \A t \in DOMAIN message_index : message_index[t] # <<>>
    /\ \A k \in DOMAIN user_index : user_index[k] # <<>>

\* C13: after _build_indices has run once on a fresh engine, message_index[t]
\* is the strictly ascending list of the positions whose lower-cased message
\* has t as a whitespace-delimited token, each position once even when t
\* occurs several times in the message; user_index[k] is the strictly
\* ascending list of the positions whose lower-cased user_name is k; no
\* empty-string key in message_index and no key with an empty list.
C13_IndexOncePerPosition ==
    BuiltOnce
    => /\ DOMAIN message_index = AllTokens(messages)
       /\ \A t \in DOMAIN message_index :
            /\ StrictlyAscending(message_index[t])
            /\ Listed(message_index, t) =
                   {p \in Positions(messages) :
                       t \in Elems(Tokens(messages[p + 1]))}
       /\ UserIndexExact
       /\ NoEmptyEntries

\* C13 (amended): as C13, but message_index[t] is the non-decreasing list
\* in which a position appears once for each occurrence of t among the
\* tokens of its message.
C13_IndexOncePerOccurrence ==
    BuiltOnce
    => /\ DOMAIN message_index = AllTokens(messages)
       /\ \A t \in DOMAIN message_index :
            /\ NonDecreasing(message_index[t])
            /\ Listed(message_index, t) \subseteq Positions(messages)
            /\ \A p \in Positions(messages) :
                 Occurrences(message_index[t], p) =
                     Occurrences(Tokens(messages[p + 1]), t)
       /\ UserIndexExact
       /\ NoEmptyEntries

\* an index built once over several records, one of them with a token that
\* occurs twice in its message, and a user_name shared by two records
C13_Witness ==
    /\ BuiltOnce
    /\ Len(messages) >= 2
    /\ \E t \in DOMAIN message_index :
         /\ Len(message_index[t]) > Cardinality(Listed(message_index, t))
         /\ Cardinality(Listed(message_index, t)) >= 2
    /\ \E k \in DOMAIN user_index : Len(user_index[k]) >= 2

----------------------------------------------------------------------------
(* C14 *)

\* C14: after any number of load_data runs on one optimized engine, whenever
\* loaded is true and no run is under way, every position in message_index
\* and user_index is < len(messages) and points at a record of the current
\* store carrying that key, the indices are those built from the current
\* store alone, and search_fast does not fail with an out-of-range position.
C14_IndicesFollowStore ==
    /\ (engine = "optimized" /\ loaded /\ pc = "done")
       => /\ \A t \in DOMAIN message_index :
               \A p \in Listed(message_index, t) :
                  /\ p \in Positions(messages)
                  /\ t \in Elems(Tokens(messages[p + 1]))
          /\ \A k \in DOMAIN user_index :
               \A p \in Listed(user_index, k) :
                  /\ p \in Positions(messages)
                  /\ lower(messages[p + 1].user_name) = k
          /\ message_index =
                 build_indices(EmptyDict, EmptyDict, messages).message_index
          /\ user_index =
                 build_indices(EmptyDict, EmptyDict, messages).user_index
    /\ (Answered /\ engine = "optimized")
       => resp.result.error # "IndexError"

====
